---- MODULE Spec2Model ----
(***************************************************************************)
(* Route search and route assembly of NJRouteGenerator                      *)
(* (src/server/route-generator.py): major-node selection, the 20-attempt    *)
(* scenic search, the four-waypoint loop builder, the difficulty            *)
(* classifier and the collection generator.                                 *)
(*                                                                          *)
(* Lengths are metres.  Coordinates are integers in millidegrees, so the    *)
(* source's "degrees * 111000" is "millidegrees * 111".  The cosmetic       *)
(* feature properties (name, description, roads) are left out; the reported *)
(* distance is kept in metres (distance_km is distance_m / 1000).           *)
(***************************************************************************)
EXTENDS Integers, Sequences, FiniteSets, TLC

VARIABLES graph, pc, last, result, sc, lp, mu, dc

vars == <<graph, pc, last, result, sc, lp, mu, dc>>

(***************************************************************************)
(* Values                                                                  *)
(***************************************************************************)
\* Python's None as a returned feature
None == [type |-> "None"]

\* float('nan'): what astype(float) gives when the regex found no digits
NaN == -1

Digits == {"0", "1", "2", "3", "4", "5", "6", "7", "8", "9"}

DigitVal(c) ==
    CASE c = "0" -> 0 [] c = "1" -> 1 [] c = "2" -> 2 [] c = "3" -> 3
      [] c = "4" -> 4 [] c = "5" -> 5 [] c = "6" -> 6 [] c = "7" -> 7
      [] c = "8" -> 8 [] c = "9" -> 9

Range(s) == {s[k] : k \in DOMAIN s}

RECURSIVE SumSeq(_)
SumSeq(s) == IF s = <<>> THEN 0 ELSE s[1] + SumSeq(Tail(s))

MinOf(a, b) == IF a < b THEN a ELSE b

(***************************************************************************)
(* Road networks handed over by the provider.  maxspeed is the string      *)
(* astype(str) produces, as a sequence of characters.                      *)
(***************************************************************************)
Mph25 == <<"2", "5", " ", "m", "p", "h">>
Mph45 == <<"4", "5", " ", "m", "p", "h">>
Num50 == <<"5", "0">>
NanStr == <<"n", "a", "n">>
ListSpeed == <<"[", "'", "2", "5", " ", "m", "p", "h", "'", ",", " ", "'", "5", "0", " ", "m", "p", "h", "'", "]">>

Edge(u, v, key, length, highway, maxspeed) ==
    [u |-> u, v |-> v, key |-> key, length |-> length,
     highway |-> highway, maxspeed |-> maxspeed]

\* both directions of a two-way street
TwoWay(u, v, length, highway, maxspeed) ==
    {Edge(u, v, 0, length, highway, maxspeed), Edge(v, u, 0, length, highway, maxspeed)}

\* a block of four streets, every node an endpoint of a major edge; 4->1 has a
\* longer parallel motorway
Square ==
    [nodes |-> <<1, 2, 3, 4>>,
     x |-> <<0, 1, 1, 0>>,
     y |-> <<0, 0, 1, 1>>,
     edges |-> TwoWay(1, 2, 200, "primary", NanStr)
                 \cup TwoWay(2, 3, 150, "secondary", Mph25)
                 \cup TwoWay(3, 4, 300, "residential", Mph45)
                 \cup TwoWay(4, 1, 250, "residential", Mph25)
                 \cup {Edge(4, 1, 1, 400, "motorway", NanStr)}]

\* long one-way roads; major nodes are 1, 2, 3; only node 1 has four nodes
\* within 8000 m
Ring ==
    [nodes |-> <<1, 2, 3, 4>>,
     x |-> <<0, 40, 0, -40>>,
     y |-> <<0, 0, 60, 0>>,
     edges |-> TwoWay(1, 2, 12000, "motorway", NanStr)
                 \cup {Edge(2, 3, 0, 12000, "motorway_link", Num50),
                       Edge(3, 4, 0, 15000, "residential", Mph25),
                       Edge(4, 1, 0, 20000, "residential", NanStr)}]

\* three nodes, one street of length zero
ZeroLen ==
    [nodes |-> <<1, 2, 3>>,
     x |-> <<0, 0, 1>>,
     y |-> <<0, 1, 0>>,
     edges |-> TwoWay(1, 2, 0, "primary", NanStr)
                 \cup TwoWay(2, 3, 100, "trunk", NanStr)]

\* no edge is major
Minor ==
    [nodes |-> <<1, 2, 3, 4>>,
     x |-> <<0, 1, 0, 2>>,
     y |-> <<0, 0, 1, 2>>,
     edges |-> TwoWay(1, 2, 120, "residential", Mph25)
                 \cup TwoWay(2, 3, 160, "residential", NanStr)
                 \cup TwoWay(3, 4, 230, "tertiary", ListSpeed)
                 \cup {Edge(4, 1, 0, 320, "residential", Mph25)}]

\* the only major edge is a self-loop, so there is exactly one major node
SelfLoop ==
    [nodes |-> <<1, 2>>,
     x |-> <<0, 1>>,
     y |-> <<0, 0>>,
     edges |-> {Edge(1, 1, 0, 50, "primary", NanStr)}
                 \cup TwoWay(1, 2, 80, "residential", NanStr)]

Graphs == <<Square, Ring, ZeroLen, Minor, SelfLoop>>

GraphIds == DOMAIN Graphs

\* the networks the command line run is exercised on
MultiGraphIds == {2, 4}

NodeSet(g) == Range(Graphs[g].nodes)

Coord(g, node) == <<Graphs[g].x[node], Graphs[g].y[node]>>

(***************************************************************************)
(* Graph access: nx.shortest_path and get_route_edge_attributes            *)
(***************************************************************************)
EdgesBetween(g, u, v) == {e \in Graphs[g].edges : e.u = u /\ e.v = v}

Adjacent(g, u, v) == EdgesBetween(g, u, v) # {}

\* the parallel edge get_route_edge_attributes reads: minimal length, first key
RouteEdge(g, u, v) ==
    CHOOSE e \in EdgesBetween(g, u, v) :
        \A f \in EdgesBetween(g, u, v) :
            e.length < f.length \/ (e.length = f.length /\ e.key <= f.key)

\* get_route_edge_attributes(graph, route, 'length')
RouteEdgeLengths(g, route) ==
    [k \in 1..(Len(route) - 1) |-> RouteEdge(g, route[k], route[k + 1]).length]

PathLength(g, route) == SumSeq(RouteEdgeLengths(g, route))

RECURSIVE WalksOfLen(_, _)
WalksOfLen(g, n) ==
    IF n = 1 THEN {<<v>> : v \in NodeSet(g)}
    ELSE UNION {{Append(p, v) : v \in {w \in NodeSet(g) \ Range(p) : Adjacent(g, p[Len(p)], w)}}
                  : p \in WalksOfLen(g, n - 1)}

SimplePaths(g) == UNION {WalksOfLen(g, n) : n \in 1..Len(Graphs[g].nodes)}

PathsBetween(g, s, t) == {p \in SimplePaths(g) : p[1] = s /\ p[Len(p)] = t}

\* every path nx.shortest_path(graph, s, t, weight='length') may return;
\* empty when it raises NetworkXNoPath
ShortestPaths(g, s, t) ==
    {p \in PathsBetween(g, s, t) :
        \A q \in PathsBetween(g, s, t) : PathLength(g, p) <= PathLength(g, q)}

ShortestPathTable ==
    [g \in GraphIds |-> [s \in NodeSet(g) |-> [t \in NodeSet(g) |-> ShortestPaths(g, s, t)]]]

shortest_path(g, s, t) == ShortestPathTable[g][s][t]

(***************************************************************************)
(* Program constants                                                       *)
(***************************************************************************)
\* for _ in range(20)
Attempts == 20

\* maxspeed threshold of a major edge
MajorSpeed == 45

\* metres per millidegree: "* 111000" per degree
MetresPerUnit == 111

MajorHighways == {"motorway", "trunk", "primary", "secondary"}

(***************************************************************************)
(* Bounds and input sets                                                   *)
(***************************************************************************)
\* largest num_routes requested
MaxRoutes == 3

\* longest edge sequence handed to the classifier
MaxEdges == 10

MinDistances == {0, 200, 10000}

MaxDistances == {350, 50000}

\* <<>> is "no center supplied"
Centers == {<<>>, <<0, 0>>, <<100, 100>>}

Radii == {-1, 0, 150, 5000, 8000}

\* values random.randint(-5000, 10000) is drawn from
JitterMin == {-5000, 10000}

\* values random.randint(-10000, 20000) is drawn from
JitterMax == {-10000, 20000}

\* values random.randint(1000, 5000) is drawn from
JitterRadius == {1000, 5000}

(***************************************************************************)
(* Major-node selection (generate_scenic_route, first part)                *)
(***************************************************************************)
\* index of the first digit of s, 0 when there is none
FirstDigit(s) ==
    IF \E k \in 1..Len(s) : s[k] \in Digits
    THEN CHOOSE k \in 1..Len(s) :
             s[k] \in Digits /\ \A j \in 1..(k - 1) : s[j] \notin Digits
    ELSE 0

\* last index of the run of digits that starts at k
RunEnd(s, k) ==
    CHOOSE e \in k..Len(s) :
        /\ \A j \in k..e : s[j] \in Digits
        /\ e = Len(s) \/ s[e + 1] \notin Digits

RECURSIVE DigitsToInt(_)
DigitsToInt(d) ==
    IF d = <<>> THEN 0
    ELSE 10 * DigitsToInt(SubSeq(d, 1, Len(d) - 1)) + DigitVal(d[Len(d)])

\* .str.extract('(\d+)', expand=False).astype(float)
extract_speed(s) ==
    IF FirstDigit(s) = 0 THEN NaN
    ELSE DigitsToInt(SubSeq(s, FirstDigit(s), RunEnd(s, FirstDigit(s))))

\* a comparison with NaN is False
is_major_edge(e) ==
    \/ e.highway \in MajorHighways
    \/ (extract_speed(e.maxspeed) # NaN /\ extract_speed(e.maxspeed) >= MajorSpeed)

major_edges(g) == {e \in Graphs[g].edges : is_major_edge(e)}

major_nodes(g) == {e.u : e \in major_edges(g)} \cup {e.v : e \in major_edges(g)}

too_few_major_mut(nodes) == Cardinality(nodes) < 1

\* if len(major_nodes_list) < 2
too_few_major(nodes) == Cardinality(nodes) < 2

(***************************************************************************)
(* Difficulty classifier                                                   *)
(***************************************************************************)
CountIn(highway_types, classes) ==
    Cardinality({k \in DOMAIN highway_types : highway_types[k] \in classes})

\* count / total > num / 10 on floats; for these sizes the quotient is the
\* double nearest the exact ratio, so the comparison is the exact one
ratio_above(count, total, tenths) == 10 * count > tenths * total

calculate_difficulty_mut(highway_types) ==
    LET motorway_count == CountIn(highway_types, {"motorway", "motorway_link"})
        primary_count == CountIn(highway_types, {"primary", "trunk"})
        total == Len(highway_types)
    IN  IF total = 0 THEN "medium"
        ELSE IF 10 * motorway_count >= 5 * total THEN "extreme"
        ELSE IF ratio_above(motorway_count + primary_count, total, 6) THEN "hard"
        ELSE IF ratio_above(primary_count, total, 4) THEN "medium"
        ELSE "easy"

calculate_difficulty(highway_types) ==
    LET motorway_count == CountIn(highway_types, {"motorway", "motorway_link"})
        primary_count == CountIn(highway_types, {"primary", "trunk"})
        total == Len(highway_types)
    IN  IF total = 0 THEN "medium"
        ELSE IF ratio_above(motorway_count, total, 5) THEN "extreme"
        ELSE IF ratio_above(motorway_count + primary_count, total, 6) THEN "hard"
        ELSE IF ratio_above(primary_count, total, 4) THEN "medium"
        ELSE "easy"

(***************************************************************************)
(* Feature assembly                                                        *)
(***************************************************************************)
\* route_coords, passed through LineString; one pair per node
route_coords(g, route) == [k \in 1..Len(route) |-> Coord(g, route[k])]

\* the highway attribute of each traversed edge
route_highways(g, route) ==
    [k \in 1..(Len(route) - 1) |-> RouteEdge(g, route[k], route[k + 1]).highway]

scenic_feature(g, best_route, best_distance) ==
    [type |-> "Feature",
     properties |-> [distance_m |-> best_distance,
                     type |-> "ai_generated",
                     difficulty |-> calculate_difficulty(route_highways(g, best_route))],
     geometry |-> [type |-> "LineString", coordinates |-> route_coords(g, best_route)]]

loop_feature(g, full_route, total_distance, center_point) ==
    [type |-> "Feature",
     properties |-> [distance_m |-> total_distance,
                     type |-> "ai_loop",
                     loop |-> TRUE,
                     center |-> center_point],
     geometry |-> [type |-> "LineString", coordinates |-> route_coords(g, full_route)]]

(***************************************************************************)
(* State                                                                   *)
(***************************************************************************)
\* locals of generate_scenic_route; the rest is history: a random draw was made
\* (drew), nx.shortest_path was called (sp_called), some attempt was in the
\* window (qualified), the earliest attempt of maximal length among those
\* (first_route, first_distance), and a later attempt of that same length took
\* another route (tied)
ScInit ==
    [min_distance |-> 0, max_distance |-> 0, major_nodes_list |-> {},
     attempt |-> 0, best_route |-> <<>>, best_distance |-> 0,
     drew |-> FALSE, sp_called |-> FALSE,
     qualified |-> FALSE, first_route |-> <<>>, first_distance |-> 0,
     tied |-> FALSE]

\* locals of generate_loop_route; segments (the paths as nx.shortest_path
\* returned them) and sp_called are history
LpInit ==
    [center_point |-> <<>>, radius |-> 0, nearby_nodes |-> <<>>,
     waypoints |-> <<>>, i |-> 0, full_route |-> <<>>, total_distance |-> 0,
     segments |-> <<>>, sp_called |-> FALSE]

\* locals of generate_multiple_routes; calls and outcomes are history: the
\* searches started and what each returned
MuInit ==
    [active |-> FALSE, num_routes |-> 0, i |-> 0, features |-> <<>>,
     calls |-> <<>>, outcomes |-> <<>>]

DcInit == [highway_types |-> <<>>, difficulty |-> "none"]

\* __init__: no graph yet
Init ==
    /\ graph = 0
    /\ pc = "idle"
    /\ last = "none"
    /\ result = None
    /\ sc = ScInit
    /\ lp = LpInit
    /\ mu = MuInit
    /\ dc = DcInit

\* where a search returns to
ReturnPc == IF mu.active THEN "collect" ELSE "idle"

\* "if not self.graph: self.download_road_network()"
LoadedGraphs == IF graph = 0 THEN GraphIds ELSE {graph}

download_road_network ==
    /\ pc = "idle"
    /\ graph = 0
    /\ graph' \in GraphIds
    /\ UNCHANGED <<pc, last, result, sc, lp, mu, dc>>

(***************************************************************************)
(* generate_scenic_route                                                   *)
(***************************************************************************)
in_window_mut(min_distance, total_distance, max_distance) ==
    min_distance <= total_distance

\* min_distance <= total_distance <= max_distance
in_window(min_distance, total_distance, max_distance) ==
    min_distance <= total_distance /\ total_distance <= max_distance

improves_mut(total_distance, best_distance) == total_distance >= best_distance

\* total_distance > best_distance
improves(total_distance, best_distance) == total_distance > best_distance

\* the history of the attempts in the window: whether there was one, and the
\* earliest of maximal length
NoteAttempt(s, route, total_distance) ==
    IF s.min_distance <= total_distance /\ total_distance <= s.max_distance
    THEN IF ~s.qualified \/ total_distance > s.first_distance
         THEN [s EXCEPT !.qualified = TRUE, !.first_route = route,
                        !.first_distance = total_distance, !.tied = FALSE]
         ELSE IF total_distance = s.first_distance /\ route # s.first_route
         THEN [s EXCEPT !.tied = TRUE]
         ELSE s
    ELSE s

\* the body of the try block once the path is known
record_route(s, route, total_distance) ==
    IF /\ in_window(s.min_distance, total_distance, s.max_distance)
       /\ improves(total_distance, s.best_distance)
    THEN [s EXCEPT !.best_route = route, !.best_distance = total_distance]
    ELSE s

\* entry of generate_scenic_route up to the loop: major nodes, early return
scenic_enter(g, min_distance, max_distance) ==
    LET major_nodes_list == major_nodes(g)
        s == [ScInit EXCEPT !.min_distance = min_distance,
                            !.max_distance = max_distance,
                            !.major_nodes_list = major_nodes_list]
    IN  /\ graph' = g
        /\ sc' = s
        /\ lp' = LpInit
        /\ result' = None
        /\ IF too_few_major(major_nodes_list)
           THEN last' = "scenic" /\ pc' = ReturnPc
           ELSE last' = "none" /\ pc' = "scenic"

generate_scenic_route ==
    /\ pc = "idle"
    /\ ~mu.active
    /\ \E g \in LoadedGraphs, min_distance \in MinDistances, max_distance \in MaxDistances :
           scenic_enter(g, min_distance, max_distance)
    /\ UNCHANGED <<mu, dc>>

\* one iteration of "for _ in range(20)"
scenic_attempt ==
    /\ pc = "scenic"
    /\ sc.attempt < Attempts
    /\ \E start_node \in sc.major_nodes_list, end_node \in sc.major_nodes_list :
           LET s == [sc EXCEPT !.attempt = @ + 1, !.drew = TRUE] IN
           IF start_node = end_node
           THEN sc' = s
           ELSE IF shortest_path(graph, start_node, end_node) = {}
           THEN sc' = [s EXCEPT !.sp_called = TRUE]
           ELSE \E route \in shortest_path(graph, start_node, end_node) :
                    LET total_distance == SumSeq(RouteEdgeLengths(graph, route)) IN
                    sc' = NoteAttempt(
                              record_route([s EXCEPT !.sp_called = TRUE], route, total_distance),
                              route, total_distance)
    /\ UNCHANGED <<graph, pc, last, result, lp, mu, dc>>

\* after the loop: "if not best_route: return None", else the feature
scenic_return ==
    /\ pc = "scenic"
    /\ sc.attempt = Attempts
    /\ result' = IF sc.best_route = <<>> THEN None
                 ELSE scenic_feature(graph, sc.best_route, sc.best_distance)
    /\ last' = "scenic"
    /\ pc' = ReturnPc
    /\ UNCHANGED <<graph, sc, lp, mu, dc>>

(***************************************************************************)
(* generate_loop_route                                                     *)
(***************************************************************************)
\* center_geom.distance(node_point) * 111000 <= radius, on squares
within_radius(g, center_point, node, radius) ==
    LET dx == Graphs[g].x[node] - center_point[1]
        dy == Graphs[g].y[node] - center_point[2]
    IN  /\ radius >= 0
        /\ (dx * dx + dy * dy) * MetresPerUnit * MetresPerUnit <= radius * radius

\* nearby_nodes, in the order of nodes_gdf
nearby(g, center_point, radius) ==
    LET Near(node) == within_radius(g, center_point, node, radius)
    IN  SelectSeq(Graphs[g].nodes, Near)

too_few_nearby_mut(nearby_nodes) == Len(nearby_nodes) < 3

\* if len(nearby_nodes) < 4
too_few_nearby(nearby_nodes) == Len(nearby_nodes) < 4

\* random.sample(population, k): every sequence of k distinct members
sample(population, k) ==
    {w \in [1..k -> Range(population)] : \A a, b \in 1..k : a # b => w[a] # w[b]}

drop_duplicate_keep(segment, i) == segment

drop_duplicate_all(segment, i) == Tail(segment)

\* if i > 0: segment = segment[1:]
drop_duplicate(segment, i) == IF i > 0 THEN Tail(segment) ELSE segment

\* entry of generate_loop_route up to the waypoint loop
loop_enter(g, center, radius) ==
    \E center_point \in (IF center = <<>> THEN {Coord(g, n) : n \in NodeSet(g)} ELSE {center}) :
        LET nearby_nodes == nearby(g, center_point, radius)
            l == [LpInit EXCEPT !.center_point = center_point, !.radius = radius,
                                !.nearby_nodes = nearby_nodes]
        IN  /\ graph' = g
            /\ sc' = ScInit
            /\ result' = None
            /\ IF too_few_nearby(nearby_nodes)
               THEN lp' = l /\ last' = "loop" /\ pc' = ReturnPc
               ELSE /\ \E waypoints \in sample(nearby_nodes, MinOf(4, Len(nearby_nodes))) :
                        lp' = [l EXCEPT !.waypoints = waypoints]
                    /\ last' = "none"
                    /\ pc' = "loop"

generate_loop_route ==
    /\ pc = "idle"
    /\ ~mu.active
    /\ \E g \in LoadedGraphs, center \in Centers, radius \in Radii :
           loop_enter(g, center, radius)
    /\ UNCHANGED <<mu, dc>>

\* one iteration of "for i in range(len(waypoints))"
loop_segment ==
    /\ pc = "loop"
    /\ lp.i < Len(lp.waypoints)
    /\ LET start == lp.waypoints[lp.i + 1]
           end == lp.waypoints[((lp.i + 1) % Len(lp.waypoints)) + 1]
       IN  IF shortest_path(graph, start, end) = {}
           THEN /\ lp' = [lp EXCEPT !.sp_called = TRUE]
                /\ result' = None
                /\ last' = "loop"
                /\ pc' = ReturnPc
           ELSE /\ \E path \in shortest_path(graph, start, end) :
                       LET segment == drop_duplicate(path, lp.i) IN
                       lp' = [lp EXCEPT !.sp_called = TRUE,
                                        !.segments = Append(@, path),
                                        !.full_route = @ \o segment,
                                        !.total_distance =
                                            @ + SumSeq(RouteEdgeLengths(graph, segment)),
                                        !.i = @ + 1]
                /\ UNCHANGED <<result, last, pc>>
    /\ UNCHANGED <<graph, sc, mu, dc>>

\* after the loop: the feature
loop_return ==
    /\ pc = "loop"
    /\ lp.i = Len(lp.waypoints)
    /\ result' = loop_feature(graph, lp.full_route, lp.total_distance, lp.center_point)
    /\ last' = "loop"
    /\ pc' = ReturnPc
    /\ UNCHANGED <<graph, sc, lp, mu, dc>>

(***************************************************************************)
(* generate_multiple_routes                                                *)
(***************************************************************************)
truthy_mut(route) == TRUE

\* "if route:" -- a feature dictionary is truthy, None is not
truthy(route) == route # None

\* entry: features = []
generate_multiple_routes ==
    /\ pc = "idle"
    /\ ~mu.active
    /\ graph # 0
    /\ \E num_routes \in 0..MaxRoutes :
           mu' = [MuInit EXCEPT !.active = TRUE, !.num_routes = num_routes]
    /\ pc' = "multi"
    /\ UNCHANGED <<graph, last, result, sc, lp, dc>>

\* even index: the scenic search with jittered window
multi_scenic ==
    /\ pc = "multi"
    /\ mu.i < mu.num_routes
    /\ mu.i % 2 = 0
    /\ mu' = [mu EXCEPT !.calls = Append(@, [index |-> mu.i, kind |-> "scenic"])]
    /\ \E g \in LoadedGraphs, jmin \in JitterMin, jmax \in JitterMax :
           scenic_enter(g, 15000 + jmin, 50000 + jmax)
    /\ UNCHANGED dc

\* odd index: the loop builder with random center and jittered radius
multi_loop ==
    /\ pc = "multi"
    /\ mu.i < mu.num_routes
    /\ mu.i % 2 # 0
    /\ mu' = [mu EXCEPT !.calls = Append(@, [index |-> mu.i, kind |-> "loop"])]
    /\ \E g \in LoadedGraphs, jradius \in JitterRadius :
           loop_enter(g, <<>>, 3000 + jradius)
    /\ UNCHANGED dc

\* "if route: features.append(route)" and the next index
multi_collect ==
    /\ pc = "collect"
    /\ mu' = [mu EXCEPT !.features = IF truthy(result) THEN Append(@, result) ELSE @,
                        !.outcomes = Append(@, result),
                        !.i = @ + 1]
    /\ pc' = "multi"
    /\ UNCHANGED <<graph, last, result, sc, lp, dc>>

\* return of the FeatureCollection
multi_return ==
    /\ pc = "multi"
    /\ mu.i = mu.num_routes
    /\ result' = [type |-> "FeatureCollection", features |-> mu.features]
    /\ last' = "multi"
    /\ pc' = "done"
    /\ UNCHANGED <<graph, sc, lp, mu, dc>>

(***************************************************************************)
(* Specifications                                                          *)
(***************************************************************************)
\* single calls of the two searches on any of the networks
Next ==
    \/ download_road_network
    \/ generate_scenic_route
    \/ scenic_attempt
    \/ scenic_return
    \/ generate_loop_route
    \/ loop_segment
    \/ loop_return

Spec == Init /\ [][Next]_vars

\* the command line run: download_road_network, then generate_multiple_routes
InitMulti ==
    /\ graph \in MultiGraphIds
    /\ pc = "idle"
    /\ last = "none"
    /\ result = None
    /\ sc = ScInit
    /\ lp = LpInit
    /\ mu = MuInit
    /\ dc = DcInit

NextMulti ==
    \/ generate_multiple_routes
    \/ multi_scenic
    \/ multi_loop
    \/ scenic_attempt
    \/ scenic_return
    \/ loop_segment
    \/ loop_return
    \/ multi_collect
    \/ multi_return

SpecMulti == InitMulti /\ [][NextMulti]_vars

\* the classifier on its own
Block(class, n) == [k \in 1..n |-> class]

Counts == 0..MaxEdges

\* edge sequences of up to MaxEdges highway classes
HighwayInputs ==
    {Block("motorway", a) \o Block("residential", e) \o Block("primary", c)
         \o Block("motorway_link", b) \o Block("trunk", d) \o Block("", f) :
       a \in Counts, b \in 0..2, c \in Counts, d \in 0..2, e \in Counts, f \in 0..1}

InitDifficulty ==
    /\ graph = 0
    /\ pc = "classify"
    /\ last = "none"
    /\ result = None
    /\ sc = ScInit
    /\ lp = LpInit
    /\ mu = MuInit
    /\ dc \in {[highway_types |-> h, difficulty |-> "none"] :
                 h \in {i \in HighwayInputs : Len(i) <= MaxEdges}}

classify ==
    /\ pc = "classify"
    /\ dc' = [dc EXCEPT !.difficulty = calculate_difficulty(dc.highway_types)]
    /\ pc' = "classified"
    /\ UNCHANGED <<graph, last, result, sc, lp, mu>>

NextDifficulty == classify

SpecDifficulty == InitDifficulty /\ [][NextDifficulty]_vars

(***************************************************************************)
(* Properties                                                              *)
(***************************************************************************)
ScenicReturned == last = "scenic" /\ result # None

LoopReturned == last = "loop" /\ result # None

\* the route a returned feature was built from
ReturnedRoute == IF last = "scenic" THEN sc.best_route ELSE lp.full_route

\* C1: a route returned by generate_scenic_route has a total edge length
\* inside [min_distance, max_distance]
C1_ScenicWithinWindow ==
    ScenicReturned =>
        /\ sc.min_distance <= PathLength(graph, sc.best_route)
        /\ PathLength(graph, sc.best_route) <= sc.max_distance
        /\ result.properties.distance_m = PathLength(graph, sc.best_route)

\* a search on the block of four streets with the window [200, 350] that
\* returned a route of exactly 350 m
C1_Witness ==
    /\ ScenicReturned
    /\ graph = 1
    /\ sc.min_distance = 200
    /\ sc.max_distance = 350
    /\ sc.best_distance = 350

\* C2: the length a successful loop reports is the sum of the full lengths of
\* its shortest-path segments
C2_LoopTotalIsSegmentSum ==
    LoopReturned =>
        result.properties.distance_m =
            SumSeq([k \in 1..Len(lp.segments) |-> PathLength(graph, lp.segments[k])])

IsFeature(route) == route # None

\* C3: one search per index, in index order; the collection is exactly the
\* successful results in that order, and has at most num_routes features
C3_CollectionIsSuccessesInOrder ==
    mu.active =>
        /\ Len(mu.outcomes) = mu.i
        /\ Len(mu.calls) = IF pc \in {"multi", "done"} THEN mu.i ELSE mu.i + 1
        /\ \A k \in 1..Len(mu.calls) : mu.calls[k].index = k - 1
        /\ mu.features = SelectSeq(mu.outcomes, IsFeature)
        /\ Len(mu.features) <= mu.num_routes
        /\ pc = "done" =>
               /\ Len(mu.calls) = mu.num_routes
               /\ result.features = mu.features

\* three requested, the middle search failed, the other two are kept in order
C3_Witness ==
    /\ pc = "done"
    /\ mu.num_routes = 3
    /\ mu.outcomes[1] # None
    /\ mu.outcomes[2] = None
    /\ mu.outcomes[3] # None
    /\ result.features = <<mu.outcomes[1], mu.outcomes[3]>>

\* C4: a returned feature has one coordinate per route node, in order, and
\* consecutive route nodes are joined by an edge
C4_GeometryFollowsWalk ==
    (ScenicReturned \/ LoopReturned) =>
        LET route == ReturnedRoute
            coordinates == result.geometry.coordinates
        IN  /\ Len(coordinates) = Len(route)
            /\ \A k \in 1..Len(route) : coordinates[k] = Coord(graph, route[k])
            /\ \A k \in 1..(Len(route) - 1) : Adjacent(graph, route[k], route[k + 1])

\* a loop whose segments have inner nodes, so junctions lie inside the route
C4_Witness ==
    /\ LoopReturned
    /\ Len(lp.full_route) > Len(lp.waypoints) + 1
    /\ Len(result.geometry.coordinates) = Len(lp.full_route)

\* C5: when the attempts are used up and some attempt was in the window, a
\* route is returned
C5_QualifiedIsReturned ==
    (last = "scenic" /\ sc.attempt = Attempts /\ sc.qualified) => result # None

\* C6: a returned scenic route is the earliest attempt of maximal length among
\* the attempts in the window
C6_LongestFirstWins ==
    ScenicReturned =>
        /\ sc.qualified
        /\ sc.best_route = sc.first_route
        /\ sc.best_distance = sc.first_distance
        /\ result.properties.distance_m = sc.first_distance
        /\ result.geometry.coordinates = route_coords(graph, sc.first_route)

\* a later attempt of the same maximal length took another route
C6_Witness == ScenicReturned /\ sc.tied

NodesWithin(g, center_point, radius) ==
    {n \in NodeSet(g) : within_radius(g, center_point, n, radius)}

\* C7: with fewer than 4 nodes within the radius the loop builder returns None
\* before any shortest path; a successful loop has 4 distinct waypoints
C7_LoopNeedsFourNodes ==
    last = "loop" =>
        /\ Cardinality(NodesWithin(graph, lp.center_point, lp.radius)) < 4 =>
               /\ result = None
               /\ ~lp.sp_called
               /\ lp.segments = <<>>
               /\ lp.waypoints = <<>>
        /\ result # None =>
               /\ Len(lp.waypoints) = 4
               /\ Cardinality(Range(lp.waypoints)) = 4
               /\ Range(lp.waypoints) \subseteq NodesWithin(graph, lp.center_point, lp.radius)

\* exactly three nodes in a generous radius
C7_Witness ==
    /\ last = "loop"
    /\ lp.radius = 5000
    /\ Len(lp.nearby_nodes) = 3
    /\ result = None

RECURSIVE CountClass(_, _)
CountClass(highway_types, classes) ==
    IF highway_types = <<>> THEN 0
    ELSE (IF Head(highway_types) \in classes THEN 1 ELSE 0)
             + CountClass(Tail(highway_types), classes)

\* first match over m/n > 1/2, (m+p)/n > 3/5, p/n > 2/5
ExpectedDifficulty(highway_types) ==
    LET m == CountClass(highway_types, {"motorway", "motorway_link"})
        p == CountClass(highway_types, {"primary", "trunk"})
        n == Len(highway_types)
    IN  CASE n = 0 -> "medium"
          [] n > 0 /\ 2 * m > n -> "extreme"
          [] n > 0 /\ 2 * m <= n /\ 5 * (m + p) > 3 * n -> "hard"
          [] n > 0 /\ 2 * m <= n /\ 5 * (m + p) <= 3 * n /\ 5 * p > 2 * n -> "medium"
          [] OTHER -> "easy"

\* C8: the classifier returns the first-match label, with strict comparisons;
\* 6 motorway + 4 residential is extreme, 5 primary + 5 residential is medium
C8_DifficultyIsFirstMatch ==
    pc = "classified" =>
        /\ dc.difficulty = ExpectedDifficulty(dc.highway_types)
        /\ (CountClass(dc.highway_types, {"motorway"}) = 6
               /\ CountClass(dc.highway_types, {"residential"}) = 4
               /\ Len(dc.highway_types) = 10) => dc.difficulty = "extreme"
        /\ (CountClass(dc.highway_types, {"primary"}) = 5
               /\ CountClass(dc.highway_types, {"residential"}) = 5
               /\ Len(dc.highway_types) = 10) => dc.difficulty = "medium"

\* exactly half motorway is not extreme
C8_Witness ==
    /\ pc = "classified"
    /\ Len(dc.highway_types) = 10
    /\ CountClass(dc.highway_types, {"motorway", "motorway_link"}) = 5
    /\ CountClass(dc.highway_types, {"primary", "trunk"}) = 1
    /\ dc.difficulty = "easy"

\* C9: with fewer than 2 major nodes generate_scenic_route returns None
\* without an attempt, a random draw or a shortest-path call
C9_TooFewMajorNodesReturnsAtOnce ==
    /\ (last = "scenic" /\ Cardinality(major_nodes(graph)) < 2) =>
           /\ result = None
           /\ sc.attempt = 0
           /\ ~sc.drew
           /\ ~sc.sp_called
    /\ (pc = "scenic") => Cardinality(major_nodes(graph)) >= 2

\* the network without a single major edge
C9_Witness ==
    /\ last = "scenic"
    /\ graph = 4
    /\ major_edges(graph) = {}
    /\ sc.major_nodes_list = {}
    /\ result = None

\* C10: a returned loop starts and ends at the first waypoint and passes the
\* waypoints in their order
C10_LoopIsClosed ==
    LoopReturned =>
        LET route == lp.full_route
            w == lp.waypoints
        IN  /\ route[1] = w[1]
            /\ route[Len(route)] = w[1]
            /\ result.geometry.coordinates[1] = result.geometry.coordinates[Len(route)]
            /\ \E at \in [1..Len(w) -> 1..Len(route)] :
                   /\ at[1] = 1
                   /\ \A k \in 1..(Len(w) - 1) : at[k] < at[k + 1]
                   /\ \A k \in 1..Len(w) : route[at[k]] = w[k]

\* a loop on the one-way ring, where the way back is not the way out
C10_Witness ==
    /\ LoopReturned
    /\ graph = 2
    /\ lp.waypoints[1] = 3
    /\ Len(lp.full_route) > 5

====
